---- MODULE Spec2Model ----
(***************************************************************************)
(* Model of arduino-led-strip.ino: the remote-control state machine        *)
(* (readReceiverAndProcess), the cooperative delay (sleep), the switch     *)
(* mode (shouldSwitchScenario, selectRandomScenario), the scenario table   *)
(* (setupScenarios) and the main loop (loop).                              *)
(*                                                                         *)
(* The pixel values of a frame are not modelled: the buffer leds is either *)
(* Blank (cleared by FastLED.clear() and not written since) or Drawn       *)
(* (written by a scenario), and shown is what FastLED.show() pushed last.  *)
(***************************************************************************)
EXTENDS Integers, Sequences, FiniteSets, TLC

\* ------------------------------------------------------------------ bounds

\* Milliseconds the clock is followed past SCENARIO_SWITCH_TIMEOUT.
MaxFine == 1
\* Number of commands of a scripted command sequence.
MaxScript == 4
\* The first instants after the start of the board, and the last ones before
\* the wrap, at which a sleep() on its own starts.
MaxStart == 2
\* The milliseconds a sleep() on its own may return late.
MaxExtra == 1
\* The hours for which a strip that is left alone is followed.
MaxHours == 24

\* --------------------------------------------------------- Receiver::Button

POWER == 0
FUNC_STOP == 1
VOL_PLUS == 2
FAST_BACK == 3
PAUSE == 4
FAST_FORWARD == 5
DOWN == 6
VOL_MINUS == 7
UP == 8
EQ == 9
ST_REPT == 10
NUM_0 == 11
NUM_1 == 12
NUM_2 == 13
NUM_3 == 14
NUM_4 == 15
NUM_5 == 16
NUM_6 == 17
NUM_7 == 18
NUM_8 == 19
NUM_9 == 20
NONE == 21

Button == POWER..NONE

\* Raw data of a decoded frame: its upper 16 bits (the lower 16 bits are 0xFF00
\* in every code of the switch statement). 65535 is the repeat code 0xFFFFFFFF,
\* which the switch statement does not know.
RawCodes == {47685, 47175, 47430, 47940, 48960, 48195, 63495, 59925, 62985,
             58905, 61965, 59670, 62220, 59160, 41310, 63240, 58140, 42330,
             48450, 44370, 46410, 65535}

rawDataToButtonCode(rawData) ==
    CASE rawData = 47685 -> POWER
      [] rawData = 47175 -> FUNC_STOP
      [] rawData = 47430 -> VOL_PLUS
      [] rawData = 47940 -> FAST_BACK
      [] rawData = 48960 -> PAUSE
      [] rawData = 48195 -> FAST_FORWARD
      [] rawData = 63495 -> DOWN
      [] rawData = 59925 -> VOL_MINUS
      [] rawData = 62985 -> UP
      [] rawData = 58905 -> EQ
      [] rawData = 61965 -> ST_REPT
      [] rawData = 59670 -> NUM_0
      [] rawData = 62220 -> NUM_1
      [] rawData = 59160 -> NUM_2
      [] rawData = 41310 -> NUM_3
      [] rawData = 63240 -> NUM_4
      [] rawData = 58140 -> NUM_5
      [] rawData = 42330 -> NUM_6
      [] rawData = 48450 -> NUM_7
      [] rawData = 44370 -> NUM_8
      [] rawData = 46410 -> NUM_9
      [] OTHER -> NONE

\* ------------------------------------------------------------- constants

NUM_SCENARIOS == 10
NUM_BRIGHTNESS_STEPS == 4
NUM_SPEED_STEPS == 5
DEFAULT_SPEED_STEP == 2
SCENARIO_SWITCH_TIMEOUT == 60000
NUM_STANDARD_COLORS == 7

brightnessMap == <<25, 100, 175, 255>>

Min(a, b) == IF a < b THEN a ELSE b
Max(a, b) == IF a > b THEN a ELSE b

\* The values random8() can return.
Random8 == 0..255

\* A scenario table in which scenario 3 takes a standard color as well.
numVariantsOfColored3(s) ==
    IF s \in {0, 1, 3, 6, 7} THEN NUM_STANDARD_COLORS ELSE 1

\* Scenario::numVariants of scenarios[s]
numVariantsOf(s) ==
    IF s \in {0, 1, 6, 7} THEN NUM_STANDARD_COLORS ELSE 1

\* The sleep() calls of scenarios[s].func: "inner" is the call inside the
\* nested loop (if (sleep(d)) return;), "outer" the call in the condition of
\* the do-while loop.
HasInner(s) == s \in {3, 7, 8, 9}

SleepArg(s, site) ==
    IF site = "inner"
    THEN CASE s = 3 -> 0
           [] s = 7 -> 30
           [] s = 8 -> 30
           [] OTHER -> 10
    ELSE CASE s = 1 -> 60
           [] s \in {2, 4} -> 1000
           [] s \in {5, 6} -> 700
           [] OTHER -> 0

VARIABLES
    isSwitchedOn,                 \* bool isSwitchedOn
    currentBrightness,            \* int currentBrightness
    currentSpeed,                 \* int currentSpeed
    currentScenario,              \* int currentScenario
    currentVariant,               \* int currentVariant
    isSwitchModeActive,           \* bool isSwitchModeActive
    lastScenarioSwitchTimestamp,  \* unsigned long lastScenarioSwitchTimestamp
    fastLedBrightness,            \* the value given to FastLED.setBrightness
    leds,                         \* CRGB leds[NUM_LEDS]: "Blank" or "Drawn"
    shown,                        \* the frame pushed by the last FastLED.show()
    clock,                        \* millis()
    decoded,                      \* IrReceiver holds a decoded frame
    running,                      \* the scenario whose func runs, -1 for none
    pc,                           \* "loop", "sleep", "select", "poll", "script"
    site,                         \* the sleep() call the scenario is in
    adjustedTime,                 \* sleep(): adjustedTime
    startTime,                    \* sleep(): startTime
    script,                       \* buttons of a scripted sequence, applied so far
    cancels                       \* calls of the scripted sequence that returned true

vars == <<isSwitchedOn, currentBrightness, currentSpeed, currentScenario,
          currentVariant, isSwitchModeActive, lastScenarioSwitchTimestamp,
          fastLedBrightness, leds, shown, clock, decoded, running, pc, site,
          adjustedTime, startTime, script, cancels>>

\* ------------------------------------------------- readReceiverAndProcess

\* The settings as a record, with what the call did: clear (FastLED.clear()
\* and FastLED.show() were called) and ret (the value returned).
Cur ==
    [on |-> isSwitchedOn, br |-> currentBrightness, sp |-> currentSpeed,
     sc |-> currentScenario, va |-> currentVariant, sw |-> isSwitchModeActive,
     ts |-> lastScenarioSwitchTimestamp, fb |-> fastLedBrightness,
     clear |-> FALSE, ret |-> FALSE]

\* A cancellation that leaves the strip as the scenario drew it.
CancelOnly(st) == [st EXCEPT !.ret = TRUE]

\* Clean up the strip and force the running scenario to cancel.
ClearAndCancel(st) == [st EXCEPT !.clear = TRUE, !.ret = TRUE]

\* A power button that also deactivates the switch mode.
TogglePowerAndMode(st) == [st EXCEPT !.on = ~st.on, !.sw = FALSE]

\* Case 1: if (button == POWER) isSwitchedOn = !isSwitchedOn;
TogglePower(st) == [st EXCEPT !.on = ~st.on]

\* A scenario selection that keeps the variant of the scenario it leaves.
SelectScenarioKeepVariant(st, newScenario) ==
    ClearAndCancel([st EXCEPT !.sc = newScenario])

\* A scenario selection that lets the running scenario go on.
SelectScenarioNoCancel(st, newScenario) ==
    [st EXCEPT !.sc = newScenario, !.va = 0]

\* Case 2: the scenario is really changed.
SelectScenario(st, newScenario) ==
    ClearAndCancel([st EXCEPT !.sc = newScenario, !.va = 0])

\* A decrement that is not looped: one below variant 0.
PrevVariantNotLooped(v, n) == v - 1

\* Case 3: increase/decrease the variant number; the counter is looped.
NextVariant(v, n) == (v + 1) % n
PrevVariant(v, n) == (n + v - 1) % n

\* A variant selection without the test for a single variant.
SelectVariantOfAny(st, button) ==
    LET n == numVariantsOf(st.sc)
    IN  ClearAndCancel(
            [st EXCEPT !.va = IF button = FAST_FORWARD
                              THEN NextVariant(st.va, n)
                              ELSE PrevVariant(st.va, n)])

\* A variant selection that forgets to clean up the strip.
SelectVariantNoClear(st, button) ==
    LET n == numVariantsOf(st.sc)
    IN  IF n = 1
        THEN [st EXCEPT !.ret = FALSE]
        ELSE [st EXCEPT !.va = IF button = FAST_FORWARD
                                THEN NextVariant(st.va, n)
                                ELSE PrevVariant(st.va, n),
                        !.ret = TRUE]

SelectVariant(st, button) ==
    LET n == numVariantsOf(st.sc)
    IN  IF n = 1
        THEN [st EXCEPT !.ret = FALSE]
        ELSE ClearAndCancel(
                 [st EXCEPT !.va = IF button = FAST_FORWARD
                                   THEN NextVariant(st.va, n)
                                   ELSE PrevVariant(st.va, n)])

\* A brightness change that also cleans up the strip.
SetBrightnessAndClear(st, button) ==
    LET b == IF button = VOL_PLUS
             THEN Min(st.br + 1, NUM_BRIGHTNESS_STEPS - 1)
             ELSE Max(st.br - 1, 0)
    IN  [st EXCEPT !.br = b, !.fb = brightnessMap[b + 1], !.clear = TRUE]

\* Case 4: brightness value.
SetBrightness(st, button) ==
    LET b == IF button = VOL_PLUS
             THEN Min(st.br + 1, NUM_BRIGHTNESS_STEPS - 1)
             ELSE Max(st.br - 1, 0)
    IN  [st EXCEPT !.br = b, !.fb = brightnessMap[b + 1]]

\* A speed change that is not kept within the speed steps.
SetSpeedUnclamped(st, button) ==
    [st EXCEPT !.sp = IF button = UP THEN st.sp + 1 ELSE st.sp - 1]

\* Case 5: speed value.
SetSpeed(st, button) ==
    [st EXCEPT !.sp = IF button = UP
                      THEN Min(st.sp + 1, NUM_SPEED_STEPS - 1)
                      ELSE Max(st.sp - 1, 0)]

\* A switch mode toggle that takes the timestamp only when it activates.
ToggleSwitchModeStampOnActivate(st, now) ==
    [st EXCEPT !.sw = ~st.sw, !.ts = IF st.sw THEN st.ts ELSE now]

\* Case 6: switch mode.
ToggleSwitchMode(st, now) == [st EXCEPT !.sw = ~st.sw, !.ts = now]

\* The state machine with a digit that selects its scenario even when it is the
\* current one.
ProcessSwitchedOnReselect(st, button, now) ==
    IF /\ button >= NUM_0
       /\ button <= NUM_9
       /\ button - NUM_0 >= NUM_SCENARIOS
    THEN [st EXCEPT !.ret = FALSE]
    ELSE IF button >= NUM_0 /\ button <= NUM_9
    THEN SelectScenario(st, button - NUM_0)
    ELSE IF button = FAST_FORWARD \/ button = FAST_BACK
    THEN SelectVariant(st, button)
    ELSE LET s4 == IF button = VOL_PLUS \/ button = VOL_MINUS
                   THEN SetBrightness(st, button) ELSE st
             s5 == IF button = UP \/ button = DOWN
                   THEN SetSpeed(s4, button) ELSE s4
             s6 == IF button = ST_REPT
                   THEN ToggleSwitchMode(s5, now) ELSE s5
         IN  [s6 EXCEPT !.ret = FALSE]

\* The state machine after the power handling (lines 285-343).
ProcessSwitchedOn(st, button, now) ==
    IF /\ button >= NUM_0
       /\ button <= NUM_9
       /\ button - NUM_0 >= NUM_SCENARIOS
    THEN [st EXCEPT !.ret = FALSE]
    ELSE IF button >= NUM_0 /\ button <= NUM_9 /\ st.sc # button - NUM_0
    THEN SelectScenario(st, button - NUM_0)
    ELSE IF button = FAST_FORWARD \/ button = FAST_BACK
    THEN SelectVariant(st, button)
    ELSE LET s4 == IF button = VOL_PLUS \/ button = VOL_MINUS
                   THEN SetBrightness(st, button) ELSE st
             s5 == IF button = UP \/ button = DOWN
                   THEN SetSpeed(s4, button) ELSE s4
             s6 == IF button = ST_REPT
                   THEN ToggleSwitchMode(s5, now) ELSE s5
         IN  [s6 EXCEPT !.ret = FALSE]

\* A switch-off that cancels the scenario and leaves the strip as it is.
SwitchedOffNoClear(st) == [st EXCEPT !.ret = TRUE]

\* Case 1, the strip was switched off: clean up the strip and cancel.
SwitchedOff(st) == ClearAndCancel(st)

\* readReceiverAndProcess() without the test of lines 282-284.
readReceiverAndProcessNoGuard(st, button, now) ==
    LET s1 == IF button = POWER THEN TogglePower(st) ELSE st
    IN  IF button = POWER /\ ~s1.on
        THEN SwitchedOff(s1)
        ELSE ProcessSwitchedOn(s1, button, now)

\* bool readReceiverAndProcess(), given the button readSignal() returned and
\* the value of millis().
readReceiverAndProcess(st, button, now) ==
    LET s1 == IF button = POWER THEN TogglePower(st) ELSE st
    IN  IF button = POWER /\ ~s1.on
        THEN SwitchedOff(s1)
        ELSE IF ~s1.on
        THEN [s1 EXCEPT !.ret = TRUE]
        ELSE ProcessSwitchedOn(s1, button, now)

\* The FastLED.show() calls of one call of readReceiverAndProcess(): one, with
\* each clean-up of the strip (lines 276, 299 and 320), and no other.
ShowCalls(st, button, now) ==
    IF readReceiverAndProcess(st, button, now).clear THEN 1 ELSE 0

\* The buttons Receiver::readSignal() can return: NONE when no frame was
\* decoded, else the button of the frame's raw data.
ReadSignal ==
    IF decoded THEN {rawDataToButtonCode(raw) : raw \in RawCodes} ELSE {NONE}

\* The globals after a call of readReceiverAndProcess() that produced r.
Store(r) ==
    /\ isSwitchedOn' = r.on
    /\ currentBrightness' = r.br
    /\ currentSpeed' = r.sp
    /\ currentScenario' = r.sc
    /\ currentVariant' = r.va
    /\ isSwitchModeActive' = r.sw
    /\ lastScenarioSwitchTimestamp' = r.ts
    /\ fastLedBrightness' = r.fb
    /\ decoded' = FALSE

\* ------------------------------------------------------------------ sleep

\* shouldSwitchScenario() called whether the switch mode is active or not.
shouldSwitchScenarioInAnyMode ==
    clock - lastScenarioSwitchTimestamp > SCENARIO_SWITCH_TIMEOUT

\* shouldSwitchScenario() with >= in place of >.
shouldSwitchScenarioAtTimeout ==
    /\ isSwitchModeActive
    /\ clock - lastScenarioSwitchTimestamp >= SCENARIO_SWITCH_TIMEOUT

\* shouldSwitchScenario()
shouldSwitchScenario ==
    /\ isSwitchModeActive
    /\ clock - lastScenarioSwitchTimestamp > SCENARIO_SWITCH_TIMEOUT

\* sleep() scaling the delay the way milliseconds() scales the time.
AdjustedTimeSwapped(delay, speed) ==
    IF speed > DEFAULT_SPEED_STEP
    THEN delay * (speed - DEFAULT_SPEED_STEP + 1)
    ELSE IF speed < DEFAULT_SPEED_STEP
    THEN delay \div (DEFAULT_SPEED_STEP - speed + 1)
    ELSE delay

\* sleep(): the delay adjusted to the current speed value.
AdjustedTime(milliseconds, speed) ==
    IF speed > DEFAULT_SPEED_STEP
    THEN milliseconds \div (speed - DEFAULT_SPEED_STEP + 1)
    ELSE IF speed < DEFAULT_SPEED_STEP
    THEN milliseconds * (DEFAULT_SPEED_STEP - speed + 1)
    ELSE milliseconds

\* milliseconds() and sleep(): the factor by which the current speed value
\* multiplies or divides a time.
SpeedFactor(speed) ==
    IF speed > DEFAULT_SPEED_STEP
    THEN speed - DEFAULT_SPEED_STEP + 1
    ELSE IF speed < DEFAULT_SPEED_STEP
    THEN DEFAULT_SPEED_STEP - speed + 1
    ELSE 1

\* unsigned long is 32 bits wide on the board; a value is held as its two
\* 16-bit halves.
Half == 256 * 256

\* The unsigned long with value n, for n in 0..2^31-1.
ULong(n) == [hi |-> n \div Half, lo |-> n % Half]

\* x *= k on an unsigned long: the product modulo 2^32.
UMul(x, k) ==
    LET p == x.lo * k
    IN  [hi |-> (x.hi * k + p \div Half) % Half, lo |-> p % Half]

\* x /= k on an unsigned long.
UDiv(x, k) ==
    [hi |-> x.hi \div k, lo |-> ((x.hi % k) * Half + x.lo) \div k]

\* x - y on unsigned longs: the difference modulo 2^32.
USub(x, y) ==
    [hi |-> (x.hi - y.hi - (IF x.lo < y.lo THEN 1 ELSE 0)) % Half,
     lo |-> (x.lo - y.lo) % Half]

\* milliseconds(): millis() adjusted to the current speed value.
milliseconds(now, speed) ==
    IF speed > DEFAULT_SPEED_STEP
    THEN UMul(ULong(now), speed - DEFAULT_SPEED_STEP + 1)
    ELSE IF speed < DEFAULT_SPEED_STEP
    THEN UDiv(ULong(now), DEFAULT_SPEED_STEP - speed + 1)
    ELSE ULong(now)

\* The condition of the do-while loop with < in place of <=.
KeepPollingStrict(now, start, adjusted) == now - start < adjusted

\* sleep(): the condition of the do-while loop.
KeepPolling(now, start, adjusted) == now - start <= adjusted

\* The sleep() call a scenario reaches first when loop() calls it.
FirstSite(s) == IF HasInner(s) THEN "inner" ELSE "outer"

\* The sleep() calls a scenario can reach next when sleep() returned false.
NextSites(s, from) ==
    IF ~HasInner(s) THEN {"outer"}
    ELSE IF from = "inner" THEN {"inner", "outer"}
    ELSE {"inner"}

\* A scenario that does not look at the value sleep() returned.
ResumeIgnoringCancel(toCancel, s, from) ==
    {[pc |-> "sleep", site |-> next,
      draw |-> ~(from = "inner" /\ next = "outer")] :
        next \in NextSites(s, from)}

\* What scenarios[s].func does when the sleep() call from returned toCancel:
\* on true it returns to loop(); on false it goes on to its next sleep() call,
\* drawing and showing a frame on the way (but for the call of "outer" after
\* "inner", which follows the end of the nested loop).
Resume(toCancel, s, from) ==
    IF toCancel
    THEN {[pc |-> "loop", site |-> "outer", draw |-> FALSE]}
    ELSE {[pc |-> "sleep", site |-> next,
           draw |-> ~(from = "inner" /\ next = "outer")] :
             next \in NextSites(s, from)}

\* The scenario whose func runs after Resume: none once it returned to loop().
Returned(to, s) == IF to.pc = "loop" THEN -1 ELSE s

\* sleep() returning at once, without a poll, when there is no time to wait.
EntersLoopIfTime(now, start, adjusted) == adjusted > 0

\* sleep() with while (millis() - startTime < adjustedTime) { ... }.
EntersLoopPretested(now, start, adjusted) == now - start < adjusted

\* sleep(): do { ... } while (...): the body runs before the first test.
EntersLoop(now, start, adjusted) == TRUE

\* The variant drawn for the scenario that is left.
RandomVariantsOfOld(scenario) ==
    {r % numVariantsOf(currentScenario) : r \in Random8}

\* sleep(): the variants random8() % scenarios[currentScenario].numVariants
\* can give for the scenario selectRandomScenario() applied.
RandomVariants(scenario) == {r % numVariantsOf(scenario) : r \in Random8}

\* The scenarios a draw with a modulus of 1 can give.
RandomScenariosOfOne == {r % 1 : r \in Random8}

\* selectRandomScenario(): the scenarios random8() % NUM_SCENARIOS can give.
RandomScenarios == {r % NUM_SCENARIOS : r \in Random8}

\* ---------------------------------------------------------------- actions

Init ==
    /\ isSwitchedOn = TRUE
    /\ currentBrightness = NUM_BRIGHTNESS_STEPS - 1
    /\ currentSpeed = DEFAULT_SPEED_STEP
    /\ currentScenario = 0
    /\ currentVariant = 0
    /\ isSwitchModeActive = FALSE
    /\ lastScenarioSwitchTimestamp = 0
    /\ fastLedBrightness = brightnessMap[NUM_BRIGHTNESS_STEPS]
    /\ leds = "Blank"
    /\ shown = "Blank"
    /\ clock = 0
    /\ decoded = FALSE
    /\ running = -1
    /\ pc = "loop"
    /\ site = "outer"
    /\ adjustedTime = 0
    /\ startTime = 0
    /\ script = <<>>
    /\ cancels = 0

\* The remote control sends a frame and the receiver decodes it.
IrReceive ==
    /\ pc # "script"
    /\ ~decoded
    /\ decoded' = TRUE
    /\ UNCHANGED <<isSwitchedOn, currentBrightness, currentSpeed,
                   currentScenario, currentVariant, isSwitchModeActive,
                   lastScenarioSwitchTimestamp, fastLedBrightness, leds, shown,
                   clock, running, pc, site, adjustedTime, startTime, script,
                   cancels>>

\* The instants at which the model observes millis(): the start, the instant
\* SCENARIO_SWITCH_TIMEOUT ms later and the MaxFine milliseconds after it.
Times == {0} \cup {SCENARIO_SWITCH_TIMEOUT + k : k \in 0..MaxFine}

\* Wall-clock time passes.
Tick ==
    /\ pc # "script"
    /\ \E t \in Times :
          /\ t > clock
          /\ clock' = t
    /\ UNCHANGED <<isSwitchedOn, currentBrightness, currentSpeed,
                   currentScenario, currentVariant, isSwitchModeActive,
                   lastScenarioSwitchTimestamp, fastLedBrightness, leds, shown,
                   decoded, running, pc, site, adjustedTime, startTime,
                   script, cancels>>

\* loop() calling a scenario whether the strip is switched on or not.
CallsScenarioAlways(st) == TRUE

\* loop(): if (isSwitchedOn) after readReceiverAndProcess() left state st.
CallsScenario(st) == st.on

\* void loop(): process input, then call the current scenario, which draws
\* its first frame and calls sleep().
Loop ==
    /\ pc = "loop"
    /\ \E button \in ReadSignal :
          LET r == readReceiverAndProcess(Cur, button, clock)
              buf == IF r.clear THEN "Blank" ELSE leds
              pushed == IF r.clear THEN "Blank" ELSE shown
          IN  /\ Store(r)
              /\ IF CallsScenario(r)
                 THEN /\ running' = r.sc
                      /\ pc' = "sleep"
                      /\ site' = FirstSite(r.sc)
                      /\ leds' = "Drawn"
                      /\ shown' = "Drawn"
                 ELSE /\ running' = -1
                      /\ pc' = "loop"
                      /\ site' = "outer"
                      /\ leds' = buf
                      /\ shown' = pushed
    /\ UNCHANGED <<clock, adjustedTime, startTime, script, cancels>>

\* bool sleep(milliseconds), up to the do-while loop.
SleepEnter ==
    /\ pc = "sleep"
    /\ IF shouldSwitchScenario
       THEN /\ lastScenarioSwitchTimestamp' = clock
            /\ leds' = "Blank"
            /\ shown' = "Blank"
            /\ pc' = "select"
            /\ UNCHANGED <<running, site, adjustedTime, startTime>>
       ELSE LET adjusted == AdjustedTime(SleepArg(running, site),
                                         currentSpeed)
            IN  /\ UNCHANGED lastScenarioSwitchTimestamp
                /\ IF EntersLoop(clock, clock, adjusted)
                   THEN /\ adjustedTime' = adjusted
                        /\ startTime' = clock
                        /\ pc' = "poll"
                        /\ UNCHANGED <<running, site, leds, shown>>
                   ELSE /\ adjustedTime' = 0
                        /\ startTime' = 0
                        /\ \E to \in Resume(FALSE, running, site) :
                              /\ running' = Returned(to, running)
                              /\ pc' = to.pc
                              /\ site' = to.site
                              /\ leds' = IF to.draw THEN "Drawn" ELSE leds
                              /\ shown' = IF to.draw THEN "Drawn" ELSE shown
    /\ UNCHANGED <<isSwitchedOn, currentBrightness, currentSpeed,
                   currentScenario, currentVariant, isSwitchModeActive,
                   fastLedBrightness, clock, decoded, script, cancels>>

\* selectRandomScenario() applying whatever scenario random8() gives.
IsCurrentNever(scenario) == FALSE

\* selectRandomScenario(): the drawn scenario is the current one and is drawn
\* again.
IsCurrent(scenario) == scenario = currentScenario

\* selectRandomScenario(): one pass of the while(true) loop; when the scenario
\* is applied, sleep() draws the variant and returns true, and the scenario
\* returns to loop().
SelectRandom ==
    /\ pc = "select"
    /\ \E scenario \in RandomScenarios :
          IF IsCurrent(scenario)
          THEN UNCHANGED <<currentScenario, currentVariant, running, pc, site>>
          ELSE /\ currentScenario' = scenario
               /\ \E v \in RandomVariants(scenario) : currentVariant' = v
               /\ \E to \in Resume(TRUE, running, site) :
                     /\ running' = Returned(to, running)
                     /\ pc' = to.pc
                     /\ site' = to.site
    /\ UNCHANGED <<isSwitchedOn, currentBrightness, currentSpeed,
                   isSwitchModeActive, lastScenarioSwitchTimestamp,
                   fastLedBrightness, leds, shown, clock, decoded,
                   adjustedTime, startTime, script, cancels>>

\* sleep(): one pass of the do-while loop. When readReceiverAndProcess()
\* returns true sleep() returns true and the scenario returns to loop(); when
\* the time is up sleep() returns false and the scenario goes on to its next
\* sleep() call.
Poll ==
    /\ pc = "poll"
    /\ \E button \in ReadSignal :
          LET r == readReceiverAndProcess(Cur, button, clock)
              buf == IF r.clear THEN "Blank" ELSE leds
              pushed == IF r.clear THEN "Blank" ELSE shown
          IN  /\ Store(r)
              /\ IF ~r.ret /\ KeepPolling(clock, startTime, adjustedTime)
                 THEN /\ leds' = buf
                      /\ shown' = pushed
                      /\ UNCHANGED <<running, pc, site, adjustedTime,
                                     startTime>>
                 ELSE /\ adjustedTime' = 0
                      /\ startTime' = 0
                      /\ \E to \in Resume(r.ret, running, site) :
                            /\ running' = Returned(to, running)
                            /\ pc' = to.pc
                            /\ site' = to.site
                            /\ leds' = IF to.draw THEN "Drawn" ELSE buf
                            /\ shown' = IF to.draw THEN "Drawn" ELSE pushed
    /\ UNCHANGED <<clock, script, cancels>>

Next == IrReceive \/ Tick \/ Loop \/ SleepEnter \/ SelectRandom \/ Poll

Spec == Init /\ [][Next]_vars

\* ------------------------------------------------ the program never stops

\* The strip after some use of the speed buttons: any speed step, with
\* scenario 0 cancelled at the start instant and loop() about to call it.
InitFair ==
    /\ isSwitchedOn = TRUE
    /\ currentBrightness = NUM_BRIGHTNESS_STEPS - 1
    /\ currentSpeed \in 0..(NUM_SPEED_STEPS - 1)
    /\ currentScenario = 0
    /\ currentVariant = 0
    /\ isSwitchModeActive = FALSE
    /\ lastScenarioSwitchTimestamp = 0
    /\ fastLedBrightness = brightnessMap[NUM_BRIGHTNESS_STEPS]
    /\ leds = "Blank"
    /\ shown = "Blank"
    /\ clock = 0
    /\ decoded = FALSE
    /\ running = -1
    /\ pc = "loop"
    /\ site = "outer"
    /\ adjustedTime = 0
    /\ startTime = 0
    /\ script = <<>>
    /\ cancels = 0

\* The user of the remote control leaves the brightness and the speed as they
\* are.
LevelsKept ==
    /\ currentBrightness' = currentBrightness
    /\ currentSpeed' = currentSpeed

NextFair ==
    \/ IrReceive
    \/ Tick
    \/ Loop /\ LevelsKept
    \/ SleepEnter
    \/ SelectRandom
    \/ Poll /\ LevelsKept

\* The processor never stops: whenever the program has a next step it takes
\* it, and random8() does not give the current scenario for ever.
Fairness ==
    /\ WF_vars(Loop /\ LevelsKept)
    /\ WF_vars(SleepEnter)
    /\ WF_vars(SelectRandom)
    /\ WF_vars(Poll /\ LevelsKept)

SpecFair == InitFair /\ [][NextFair]_vars /\ Fairness

\* ------------------------------------------------- scripted command sequences

\* The buttons of the scripted sequences.
ScriptButtons ==
    {NUM_3, FAST_FORWARD, VOL_PLUS, NUM_0, FAST_BACK, VOL_MINUS, POWER, NONE}

InitScript ==
    /\ isSwitchedOn = TRUE
    /\ currentBrightness = NUM_BRIGHTNESS_STEPS - 1
    /\ currentSpeed = DEFAULT_SPEED_STEP
    /\ currentScenario = 0
    /\ currentVariant = 0
    /\ isSwitchModeActive = FALSE
    /\ lastScenarioSwitchTimestamp = 0
    /\ fastLedBrightness = brightnessMap[NUM_BRIGHTNESS_STEPS]
    /\ leds = "Blank"
    /\ shown = "Blank"
    /\ clock = 0
    /\ decoded = FALSE
    /\ running = -1
    /\ pc = "script"
    /\ site = "outer"
    /\ adjustedTime = 0
    /\ startTime = 0
    /\ script = <<>>
    /\ cancels = 0

\* One call of readReceiverAndProcess() with the next button of a sequence.
ScriptStep ==
    /\ pc = "script"
    /\ Len(script) < MaxScript
    /\ \E button \in ScriptButtons :
          LET r == readReceiverAndProcess(Cur, button, clock)
          IN  /\ Store(r)
              /\ leds' = IF r.clear THEN "Blank" ELSE leds
              /\ shown' = IF r.clear THEN "Blank" ELSE shown
              /\ script' = Append(script, button)
              /\ cancels' = cancels + (IF r.ret THEN 1 ELSE 0)
    /\ UNCHANGED <<clock, running, pc, site, adjustedTime, startTime>>

SpecScript == InitScript /\ [][ScriptStep]_vars

\* --------------------------------------------------- one sleep() on its own

\* The last instant at which millis() times 3 is below 2^32.
LastBeforeWrap == (Half * (Half \div 3)) + (Half \div 3)

\* The instants at which the sleep() starts: the first ones after the start of
\* the board and the last ones before milliseconds() wraps at the highest
\* speed.
StartTimes == (0..MaxStart) \cup {LastBeforeWrap - j : j \in 0..MaxStart}

\* A scenario is about to call sleep() at one of its call sites with some
\* speed, and no button arrives.
InitScale ==
    /\ isSwitchedOn = TRUE
    /\ currentBrightness = NUM_BRIGHTNESS_STEPS - 1
    /\ currentSpeed \in 0..(NUM_SPEED_STEPS - 1)
    /\ currentScenario \in 0..(NUM_SCENARIOS - 1)
    /\ currentVariant = 0
    /\ isSwitchModeActive = FALSE
    /\ lastScenarioSwitchTimestamp = 0
    /\ fastLedBrightness = brightnessMap[NUM_BRIGHTNESS_STEPS]
    /\ leds = "Drawn"
    /\ shown = "Drawn"
    /\ clock \in StartTimes
    /\ decoded = FALSE
    /\ running = currentScenario
    /\ pc = "scale"
    /\ site \in {"outer"} \cup (IF HasInner(currentScenario)
                                THEN {"inner"} ELSE {})
    /\ adjustedTime = 0
    /\ startTime = 0
    /\ script = <<>>
    /\ cancels = 0

\* sleep() up to the do-while loop, the switch mode being inactive.
ScaleEnter ==
    /\ pc = "scale"
    /\ ~shouldSwitchScenario
    /\ adjustedTime' = AdjustedTime(SleepArg(running, site), currentSpeed)
    /\ startTime' = clock
    /\ pc' = "scalepoll"
    /\ UNCHANGED <<isSwitchedOn, currentBrightness, currentSpeed,
                   currentScenario, currentVariant, isSwitchModeActive,
                   lastScenarioSwitchTimestamp, fastLedBrightness, leds, shown,
                   clock, decoded, running, site, script, cancels>>

\* sleep(): the do-while loop polls without a button until its condition
\* fails, at the first instant past the adjusted time or up to MaxExtra
\* milliseconds later, and sleep() returns false.
ScaleWait ==
    /\ pc = "scalepoll"
    /\ \E late \in 0..MaxExtra :
          LET t == startTime + adjustedTime + 1 + late
          IN  /\ KeepPolling(t - late - 1, startTime, adjustedTime)
              /\ ~KeepPolling(t, startTime, adjustedTime)
              /\ clock' = t
    /\ pc' = "scaled"
    /\ UNCHANGED <<isSwitchedOn, currentBrightness, currentSpeed,
                   currentScenario, currentVariant, isSwitchModeActive,
                   lastScenarioSwitchTimestamp, fastLedBrightness, leds, shown,
                   decoded, running, site, adjustedTime, startTime, script,
                   cancels>>

NextScale == ScaleEnter \/ ScaleWait

SpecScale == InitScale /\ [][NextScale]_vars

\* ------------------------------------------------- the strip left alone

\* One hour of millis().
Hour == 60 * SCENARIO_SWITCH_TIMEOUT

\* README: by default the strip is active 6 hours after startup and then
\* switches off for 18 more hours.
ACTIVITY_PERIOD == 6 * Hour
TOTAL_PERIOD == ACTIVITY_PERIOD + 18 * Hour

\* The instants at which the strip left alone is observed: the whole hours.
HourTimes == {h * Hour : h \in 0..MaxHours}

\* Hours pass.
TickHours ==
    /\ \E t \in HourTimes :
          /\ t > clock
          /\ clock' = t
    /\ UNCHANGED <<isSwitchedOn, currentBrightness, currentSpeed,
                   currentScenario, currentVariant, isSwitchModeActive,
                   lastScenarioSwitchTimestamp, fastLedBrightness, leds, shown,
                   decoded, running, pc, site, adjustedTime, startTime,
                   script, cancels>>

\* The program runs from startup and the remote control sends nothing.
NextTimeout == TickHours \/ Loop \/ SleepEnter \/ Poll

SpecTimeout == Init /\ [][NextTimeout]_vars

\* ----------------------------------------------------------------- claims

ValidVariant(s, v) == v >= 0 /\ v < numVariantsOf(s)

\* C1: in every reachable state currentVariant is a valid variant of the
\* current scenario, and every step that changes currentScenario resets
\* currentVariant to 0 (a digit button, in loop() or in sleep()) or draws it
\* again within the variants of the new scenario (switch mode).
C1_VariantValid ==
    /\ [](ValidVariant(currentScenario, currentVariant))
    /\ [][currentScenario' # currentScenario =>
             IF pc = "select"
             THEN ValidVariant(currentScenario', currentVariant')
             ELSE currentVariant' = 0]_vars

\* C1 witness: scenario 2 (one variant) was selected by its digit button while
\* variant 6 of scenario 0 was shown, inside a sleep(0) call at time 0.
C1_Witness ==
    /\ currentScenario = 2
    /\ currentVariant = 0
    /\ pc = "loop"
    /\ leds = "Blank"
    /\ clock = 0

\* The result of readReceiverAndProcess() for a button in the current state.
Result(button) == readReceiverAndProcess(Cur, button, clock)

\* C2 as stated: a call that changes currentScenario, currentVariant or
\* isSwitchedOn (in either direction) cleans up the strip and returns true.
C2_EveryChangeClears ==
    \A button \in Button :
        LET r == Result(button)
        IN  (\/ r.sc # currentScenario
             \/ r.va # currentVariant
             \/ r.on # isSwitchedOn) => (r.clear /\ r.ret)

\* C2 amended: a call that changes currentScenario or currentVariant, or
\* switches the strip off, cleans up the strip and returns true; the call
\* that switches the strip on returns false and does not clean up the strip.
C2_ChangeClears ==
    \A button \in Button :
        LET r == Result(button)
        IN  /\ (\/ r.sc # currentScenario
                \/ r.va # currentVariant
                \/ (isSwitchedOn /\ ~r.on)) => (r.clear /\ r.ret)
            /\ (~isSwitchedOn /\ r.on) => (~r.clear /\ ~r.ret)

\* C2 witness: FAST_FORWARD was processed inside sleep(0) of scenario 0 at
\* time 0: the variant changed, the strip is clean and the scenario returned.
C2_Witness ==
    /\ isSwitchedOn
    /\ currentScenario = 0
    /\ currentVariant = 1
    /\ pc = "loop"
    /\ leds = "Blank"
    /\ shown = "Blank"
    /\ clock = 0

C3_Sequence == <<NUM_3, FAST_FORWARD, FAST_FORWARD, VOL_PLUS>>

\* C3 as stated: after NUM_3, FAST_FORWARD, FAST_FORWARD, VOL_PLUS from the
\* initial state the scenario is 3, the variant 2, the brightness
\* min(old + 1, max), and two of the four calls returned true.
C3_EndsInVariant2 ==
    script = C3_Sequence =>
        /\ currentScenario = 3
        /\ currentVariant = 2
        /\ currentBrightness = Min(NUM_BRIGHTNESS_STEPS - 1 + 1,
                                   NUM_BRIGHTNESS_STEPS - 1)
        /\ cancels = 2

\* C3 amended: after the same sequence the scenario is 3, the variant 0 (the
\* scenario has one variant), the brightness min(old + 1, max), and one of
\* the four calls (NUM_3) returned true.
C3_EndsInVariant0 ==
    script = C3_Sequence =>
        /\ currentScenario = 3
        /\ currentVariant = 0
        /\ currentBrightness = Min(NUM_BRIGHTNESS_STEPS - 1 + 1,
                                   NUM_BRIGHTNESS_STEPS - 1)
        /\ cancels = 1

\* C3 witness: the four commands were applied.
C3_Witness == script = C3_Sequence /\ currentScenario = 3

\* A step of the program (not of the clock, not of the remote control).
ProgramStep == clock' = clock /\ ~(~decoded /\ decoded')

\* A switch is due: the switch mode is on and more than
\* SCENARIO_SWITCH_TIMEOUT ms have passed since the last switch.
Due ==
    /\ isSwitchModeActive
    /\ clock - lastScenarioSwitchTimestamp > SCENARIO_SWITCH_TIMEOUT

\* The step changes what makes readReceiverAndProcess() return true while the
\* strip is switched on: the power, the scenario or the variant.
Cancelled ==
    \/ isSwitchedOn' # isSwitchedOn
    \/ currentScenario' # currentScenario
    \/ currentVariant' # currentVariant

\* C4 as stated: the switch mode fires exactly once per 60000 ms: whenever a
\* sleep() call switches the scenario, exactly SCENARIO_SWITCH_TIMEOUT ms
\* have passed since the last switch.
C4_ExactPeriod ==
    [][(pc = "sleep" /\ ProgramStep /\ pc' = "select") =>
          clock - lastScenarioSwitchTimestamp = SCENARIO_SWITCH_TIMEOUT]_vars

\* C4 amended: a sleep() call switches the scenario at its entry exactly when
\* the switch mode is on and strictly more than SCENARIO_SWITCH_TIMEOUT ms
\* have passed since the last switch (whatever the speed and the scenario);
\* it never switches at 60000 ms sharp, and no switch happens while sleep()
\* is polling or while loop() runs, however long the switch has been due.
C4_FiresPastPeriod ==
    [][/\ (pc = "sleep" /\ ProgramStep) =>
           ((pc' = "select") <=>
              (/\ isSwitchModeActive
               /\ clock - lastScenarioSwitchTimestamp
                     > SCENARIO_SWITCH_TIMEOUT))
       /\ (pc # "sleep") => (pc' = "select" => pc = "select")]_vars

\* C4 witness: a switch fired 60001 ms after the switch mode was turned on.
C4_Witness ==
    /\ pc = "select"
    /\ clock = SCENARIO_SWITCH_TIMEOUT + 1
    /\ lastScenarioSwitchTimestamp = clock

\* C5: when a sleep() call has returned true (readReceiverAndProcess()
\* changed the power, the scenario or the variant, or the switch mode
\* selected a scenario), the scenario is back in loop() in the same step, with
\* the strip still clean and nothing shown after the clean-up.
C5_PromptReturn ==
    [][((pc = "poll" \/ pc = "select") /\ Cancelled) =>
          (pc' = "loop" /\ leds' = "Blank" /\ shown' = "Blank")]_vars

\* C5 witness: scenario 7 was cancelled by FAST_FORWARD inside its nested
\* sleep(30) call and has returned to loop().
C5_Witness ==
    /\ isSwitchedOn
    /\ currentScenario = 7
    /\ currentVariant = 1
    /\ pc = "loop"
    /\ leds = "Blank"
    /\ clock = 0

\* C6: while the strip is switched off, readReceiverAndProcess() with any
\* button but POWER (NONE included) returns true and changes neither a
\* setting nor the strip.
C6_OffIgnoresButtons ==
    ~isSwitchedOn =>
        \A button \in Button \ {POWER} :
            Result(button) = [Cur EXCEPT !.ret = TRUE]

\* C6 witness: the strip is switched off with the switch mode on, the lowest
\* brightness set and a frame of the remote control waiting.
C6_Witness ==
    /\ ~isSwitchedOn
    /\ decoded
    /\ isSwitchModeActive
    /\ currentBrightness = 0
    /\ pc = "loop"

\* C7: whenever the strip is switched off, the buffer is blank, the blank
\* frame is the one shown and no scenario is running.
C7_OffIsBlank ==
    ~isSwitchedOn => (leds = "Blank" /\ shown = "Blank" /\ pc = "loop")

\* C7 witness: scenario 9 was switched off after 60000 ms.
C7_Witness ==
    /\ ~isSwitchedOn
    /\ currentScenario = 9
    /\ clock = SCENARIO_SWITCH_TIMEOUT

\* The delay sleep() waits for at a speed.
C8_Scaled(d, speed) ==
    CASE speed = 0 -> d * 3
      [] speed = 1 -> d * 2
      [] speed = 2 -> d
      [] speed = 3 -> d \div 2
      [] speed = 4 -> d \div 3

\* C8: a sleep() call that does not switch the scenario waits for the delay
\* scaled by the speed at its entry; a pass of its loop returns true exactly
\* when the command it polled changed the power, the scenario or the variant
\* (readReceiverAndProcess() returned true), returns false only when no such
\* command was polled and more than the scaled delay has passed, and polls
\* again otherwise.
C8_WaitResult ==
    [][/\ (pc = "sleep" /\ ProgramStep /\ pc' = "poll") =>
           /\ startTime' = clock
           /\ adjustedTime' =
                  C8_Scaled(SleepArg(currentScenario, site), currentSpeed)
       /\ (pc = "poll" /\ ProgramStep) =>
           /\ isSwitchedOn
           /\ (pc' = "loop") <=> Cancelled
           /\ (pc' = "sleep") =>
                  (~Cancelled /\ clock - startTime > adjustedTime)
           /\ (pc' = "poll") =>
                  (~Cancelled /\ clock - startTime <= adjustedTime)]_vars

\* C8 witness: the nested sleep(10) of scenario 9 returned false and the
\* scenario reached the sleep(0) after its nested loop.
C8_Witness ==
    /\ pc = "sleep"
    /\ site = "outer"
    /\ currentScenario = 9
    /\ leds = "Drawn"

\* C9: a sleep() call entered when a switch is due cleans up the strip, sets
\* the timestamp and does nothing else before it selects a scenario other
\* than the current one and a valid variant of it and returns true to the
\* scenario, which returns to loop(); neither step reads the receiver (a
\* frame that waits keeps waiting) or changes another setting.
C9_SwitchAtEntry ==
    [][/\ (pc = "sleep" /\ ProgramStep /\ Due) =>
           /\ pc' = "select"
           /\ leds' = "Blank"
           /\ shown' = "Blank"
           /\ lastScenarioSwitchTimestamp' = clock
           /\ UNCHANGED <<currentScenario, currentVariant>>
       /\ (pc = "select" /\ ProgramStep) =>
           /\ pc' = "loop"
           /\ currentScenario' # currentScenario
           /\ ValidVariant(currentScenario', currentVariant')
           /\ UNCHANGED <<leds, shown, lastScenarioSwitchTimestamp>>
       /\ ((pc = "sleep" /\ Due) \/ pc = "select") /\ ProgramStep =>
           UNCHANGED <<decoded, isSwitchedOn, currentBrightness,
                       currentSpeed, isSwitchModeActive>>]_vars

\* C9 witness: the sleep(1000) call of scenario 2 switched the scenario while
\* a frame of the remote control was waiting.
C9_Witness ==
    /\ pc = "select"
    /\ currentScenario = 2
    /\ decoded
    /\ leds = "Blank"

\* C10: a sleep() call that does not switch the scenario enters its loop
\* without reading the receiver, and leaves the loop only in a pass that read
\* the receiver and processed the button, also for sleep(0) and at every
\* speed: a frame that waits at the entry is processed before sleep() returns.
C10_PollsOnce ==
    [][/\ (pc = "sleep" /\ ProgramStep /\ ~Due) =>
           (pc' = "poll" /\ decoded' = decoded)
       /\ (pc = "poll" /\ pc' # "poll") => (~decoded' /\ clock' = clock)]_vars

\* C10 witness: at the highest speed FAST_BACK was processed inside a sleep(0)
\* call of scenario 0 at time 0.
C10_Witness ==
    /\ isSwitchedOn
    /\ currentSpeed = NUM_SPEED_STEPS - 1
    /\ currentScenario = 0
    /\ currentVariant = NUM_STANDARD_COLORS - 1
    /\ pc = "loop"
    /\ leds = "Blank"
    /\ clock = 0

\* C11: while the strip is switched on, the digit button that names the current
\* scenario returns false and changes nothing: the variant keeps its value, the
\* strip is not cleared and no setting moves; so a digit pressed a second time
\* cancels nothing and leaves the state the first press produced.
C11_SameDigitNoOp ==
    isSwitchedOn =>
        /\ Result(NUM_0 + currentScenario) = Cur
        /\ \A n \in {currentScenario, (currentScenario + 1) % NUM_SCENARIOS} :
              LET once == Result(NUM_0 + n)
                  first == [once EXCEPT !.clear = FALSE, !.ret = FALSE]
              IN  readReceiverAndProcess(first, NUM_0 + n, clock) = first

\* A scenario runs one of its later variants while a frame waits in the
\* receiver.
C11_Witness ==
    /\ isSwitchedOn
    /\ currentScenario = 6
    /\ currentVariant = 3
    /\ pc = "poll"
    /\ decoded
    /\ leds = "Drawn"

\* C12: while the strip is switched on, a digit button that names another
\* scenario makes it the current scenario with variant 0, clears and shows the
\* strip and returns true; brightness, speed, power, the switch mode and its
\* timestamp keep their values.
C12_OtherDigitSelects ==
    isSwitchedOn =>
        \A n \in 0..(NUM_SCENARIOS - 1) :
            n # currentScenario =>
                Result(NUM_0 + n) =
                    [Cur EXCEPT !.sc = n, !.va = 0,
                                !.clear = TRUE, !.ret = TRUE]

\* Digit 5 was processed during a sleep() of another scenario: scenario 5 is
\* current with variant 0, the strip is blank and loop() is about to call it,
\* with brightness and speed off their defaults.
C12_Witness ==
    /\ isSwitchedOn
    /\ currentScenario = 5
    /\ currentVariant = 0
    /\ currentBrightness = 2
    /\ currentSpeed = 3
    /\ pc = "loop"
    /\ leds = "Blank"
    /\ shown = "Blank"

\* C13: while the strip is switched on and the current scenario has more than
\* one variant, FAST_FORWARD moves the variant one step up and FAST_BACK one
\* step down, looped both ways (with 7 variants FAST_BACK at 0 gives 6 and
\* FAST_FORWARD at 6 gives 0), so the variant stays a variant of the scenario;
\* each of the two clears and shows the strip and returns true and changes
\* nothing else.
C13_VariantLooped ==
    LET n == numVariantsOf(currentScenario)
        up == IF currentVariant = n - 1 THEN 0 ELSE currentVariant + 1
        down == IF currentVariant = 0 THEN n - 1 ELSE currentVariant - 1
    IN  isSwitchedOn /\ n > 1 =>
            /\ Result(FAST_FORWARD) =
                   [Cur EXCEPT !.va = up, !.clear = TRUE, !.ret = TRUE]
            /\ Result(FAST_BACK) =
                   [Cur EXCEPT !.va = down, !.clear = TRUE, !.ret = TRUE]
            /\ ValidVariant(currentScenario, up)
            /\ ValidVariant(currentScenario, down)
            /\ n = NUM_STANDARD_COLORS
            /\ currentVariant = 0 => Result(FAST_BACK).va = 6
            /\ currentVariant = 6 => Result(FAST_FORWARD).va = 0

\* Scenario 1 was cancelled by a variant button that looped to its last
\* variant, and loop() is about to call it again on a blank strip.
C13_Witness ==
    /\ isSwitchedOn
    /\ currentScenario = 1
    /\ currentVariant = 6
    /\ pc = "loop"
    /\ leds = "Blank"
    /\ ~decoded

\* C14: while the strip is switched on and the current scenario has exactly
\* one variant, FAST_FORWARD and FAST_BACK return false and change nothing:
\* the variant stays 0 and the strip is not cleared, so the scenario runs on.
C14_SingleVariantNoOp ==
    isSwitchedOn /\ numVariantsOf(currentScenario) = 1 =>
        /\ currentVariant = 0
        /\ Result(FAST_FORWARD) = Cur
        /\ Result(FAST_BACK) = Cur

\* A scenario with one variant is in a sleep() with a frame drawn and a
\* button waiting in the receiver.
C14_Witness ==
    /\ isSwitchedOn
    /\ currentScenario = 2
    /\ currentVariant = 0
    /\ pc = "poll"
    /\ decoded
    /\ leds = "Drawn"
    /\ shown = "Drawn"

\* C15: while the strip is switched on, VOL_PLUS, VOL_MINUS, UP and DOWN
\* return false and never clear the strip; a volume button changes only the
\* brightness step (and the brightness handed to the LED driver with it), a
\* speed button only the speed step, each by at most one step in its own
\* direction; scenario, variant, power and switch mode keep their values.
C15_LevelsOnly ==
    isSwitchedOn =>
        /\ \E b \in {currentBrightness, currentBrightness + 1}
                    \cap (0..(NUM_BRIGHTNESS_STEPS - 1)) :
              Result(VOL_PLUS) =
                  [Cur EXCEPT !.br = b, !.fb = brightnessMap[b + 1]]
        /\ \E b \in {currentBrightness, currentBrightness - 1}
                    \cap (0..(NUM_BRIGHTNESS_STEPS - 1)) :
              Result(VOL_MINUS) =
                  [Cur EXCEPT !.br = b, !.fb = brightnessMap[b + 1]]
        /\ \E s \in {currentSpeed, currentSpeed + 1} :
              Result(UP) = [Cur EXCEPT !.sp = s]
        /\ \E s \in {currentSpeed, currentSpeed - 1} :
              Result(DOWN) = [Cur EXCEPT !.sp = s]

\* Brightness and speed were both moved off their initial steps while a
\* scenario with a later variant kept running in the same sleep().
C15_Witness ==
    /\ isSwitchedOn
    /\ currentBrightness = 1
    /\ fastLedBrightness = 100
    /\ currentSpeed = 3
    /\ currentScenario = 7
    /\ currentVariant = 2
    /\ pc = "poll"
    /\ leds = "Drawn"

\* C16: in every reachable state the brightness step is in 0..3, the speed
\* step in 0..4 and the scenario in 0..9; VOL_PLUS at the highest and VOL_MINUS
\* at the lowest brightness step leave it as it is, and so do UP and DOWN at
\* the ends of the speed steps; hence the factor by which the speed scales a
\* time is a whole number of at least 1 (1, 2 or 3), whether sleep() divides
\* or multiplies by it.
C16_LevelsInRange ==
    /\ currentBrightness \in 0..(NUM_BRIGHTNESS_STEPS - 1)
    /\ currentSpeed \in 0..(NUM_SPEED_STEPS - 1)
    /\ currentScenario \in 0..(NUM_SCENARIOS - 1)
    /\ isSwitchedOn =>
          /\ currentBrightness = NUM_BRIGHTNESS_STEPS - 1
                => Result(VOL_PLUS).br = currentBrightness
          /\ currentBrightness = 0 => Result(VOL_MINUS).br = 0
          /\ currentSpeed = NUM_SPEED_STEPS - 1
                => Result(UP).sp = currentSpeed
          /\ currentSpeed = 0 => Result(DOWN).sp = 0
    /\ SpeedFactor(currentSpeed) \in 1..3
    /\ AdjustedTime(6, currentSpeed) =
          IF currentSpeed > DEFAULT_SPEED_STEP
          THEN 6 \div SpeedFactor(currentSpeed)
          ELSE 6 * SpeedFactor(currentSpeed)

\* Brightness and speed are both at their lowest steps, where VOL_MINUS and
\* DOWN are clamped, while the last scenario runs.
C16_Witness ==
    /\ isSwitchedOn
    /\ currentBrightness = 0
    /\ currentSpeed = 0
    /\ currentScenario = NUM_SCENARIOS - 1
    /\ pc = "poll"

C17_SwitchChangesScenario ==
    [][pc = "select" =>
          IF pc' = "select"
          THEN currentScenario' = currentScenario
          ELSE /\ currentScenario' # currentScenario
               /\ currentScenario' \in 0..(NUM_SCENARIOS - 1)
               /\ pc' = "loop"]_vars

\* A random switch has just been completed away from some scenario: the
\* timestamp is the current instant past the timeout, the strip is blank, the
\* last scenario is current with a random variant and loop() is about to
\* call it.
C17_Witness ==
    /\ isSwitchedOn
    /\ isSwitchModeActive
    /\ clock = SCENARIO_SWITCH_TIMEOUT + 1
    /\ lastScenarioSwitchTimestamp = clock
    /\ currentScenario = 7
    /\ currentVariant = 5
    /\ pc = "loop"
    /\ running = -1
    /\ leds = "Blank"
    /\ ~decoded

\* C20: a scenario func runs only while the strip is switched on, and it is
\* always the func of the current scenario, at one of that scenario's sleep()
\* calls; while the strip is switched off no func runs, loop() is the only
\* code that executes and no frame is drawn.
C20_RunsCurrentWhileOn ==
    /\ running # -1 <=> pc \in {"sleep", "select", "poll"}
    /\ running # -1 =>
          /\ isSwitchedOn
          /\ running = currentScenario
          /\ site = "inner" => HasInner(running)
    /\ ~isSwitchedOn =>
          /\ running = -1
          /\ pc = "loop"
          /\ leds # "Drawn"
          /\ shown # "Drawn"

\* The strip was switched off while scenario 4 was current and the switch
\* mode active; past the timeout loop() still calls nothing, with a button
\* waiting in the receiver.
C20_Witness ==
    /\ ~isSwitchedOn
    /\ running = -1
    /\ pc = "loop"
    /\ currentScenario = 4
    /\ isSwitchModeActive
    /\ clock = SCENARIO_SWITCH_TIMEOUT + 1
    /\ decoded

\* The time by which milliseconds() advanced from the start of the sleep() to
\* the current instant, as the unsigned difference a scenario computes.
Advance ==
    USub(milliseconds(clock, currentSpeed),
         milliseconds(startTime, currentSpeed))

\* The sleep() has returned at the first instant past the adjusted time.
ReturnedAtOnce == pc = "scaled" /\ clock - startTime = adjustedTime + 1

\* C18 as stated: a sleep(d) that ran to its end, returning as early as it
\* can, advances milliseconds() by exactly d at every speed.
C18_AdvancesByDelay ==
    ReturnedAtOnce => Advance = ULong(SleepArg(running, site))

\* C18: at every speed step milliseconds() and sleep() use the same factor
\* k = |speed - DEFAULT_SPEED_STEP| + 1, one multiplying where the other
\* divides (both in whole numbers, the division truncating); a sleep(d) that
\* ran to its end advances milliseconds() by at least d, and by at most d + k
\* when it returns at the first instant past the adjusted time.
C18_InverseFactors ==
    /\ \A speed \in 0..(NUM_SPEED_STEPS - 1) :
          LET k == IF speed >= DEFAULT_SPEED_STEP
                   THEN speed - DEFAULT_SPEED_STEP + 1
                   ELSE DEFAULT_SPEED_STEP - speed + 1
              d == SleepArg(running, site)
              now == ULong(clock)
          IN  /\ k = SpeedFactor(speed)
              /\ speed > DEFAULT_SPEED_STEP =>
                    /\ milliseconds(clock, speed) = UMul(now, k)
                    /\ AdjustedTime(d, speed) = d \div k
              /\ speed < DEFAULT_SPEED_STEP =>
                    /\ milliseconds(clock, speed) = UDiv(now, k)
                    /\ AdjustedTime(d, speed) = d * k
              /\ speed = DEFAULT_SPEED_STEP =>
                    /\ milliseconds(clock, speed) = now
                    /\ AdjustedTime(d, speed) = d
    /\ pc = "scaled" =>
          /\ Advance.hi = 0
          /\ Advance.lo >= SleepArg(running, site)
          /\ ReturnedAtOnce =>
                Advance.lo <= SleepArg(running, site)
                                + SpeedFactor(currentSpeed)

\* At the highest speed sleep(1000) of scenario 2 ends after 334 ms, across
\* the instant at which milliseconds() wraps, and milliseconds() has advanced
\* by 1002.
C18_Witness ==
    /\ ReturnedAtOnce
    /\ currentSpeed = NUM_SPEED_STEPS - 1
    /\ running = 2
    /\ startTime = LastBeforeWrap
    /\ adjustedTime = 333
    /\ Advance = ULong(1002)

\* C21: while the strip is switched on, ST_REPT is answered by a blink of the
\* strip, twice when it activates the switch mode and once when it
\* deactivates it; a blink shows the strip dark and then lit again, so the call
\* that handles the button shows at least two frames for each blink.
C21_ToggleBlinks ==
    isSwitchedOn =>
        ShowCalls(Cur, ST_REPT, clock) >=
            (IF isSwitchModeActive THEN 2 ELSE 4)

\* C22: left alone, the strip is switched on for the first ACTIVITY_PERIOD after
\* startup and has switched itself off for the rest of TOTAL_PERIOD.
C22_OffAfterActivity ==
    /\ clock < ACTIVITY_PERIOD => isSwitchedOn
    /\ clock > ACTIVITY_PERIOD /\ clock < TOTAL_PERIOD => ~isSwitchedOn

\* C23: whenever no scenario func runs, so whenever loop() is about to call
\* one, the buffer is blank and the blank frame is the last one shown: a func
\* returns only after a sleep() that returned true, and every such sleep()
\* cleaned up the strip and drew nothing after; a strip that is switched off
\* and on again is still blank when the func is called.
C23_StartsBlank ==
    running = -1 => (leds = "Blank" /\ shown = "Blank")

\* A scenario was cancelled by a change of its variant after the timeout, at
\* a low brightness: loop() is about to call it again.
C23_Witness ==
    /\ isSwitchedOn
    /\ running = -1
    /\ pc = "loop"
    /\ currentScenario = 6
    /\ currentVariant = 4
    /\ currentBrightness = 1
    /\ clock = SCENARIO_SWITCH_TIMEOUT
    /\ ~isSwitchModeActive
    /\ leds = "Blank"
    /\ shown = "Blank"

\* A step in which the receiver's frame is taken is one call of
\* readReceiverAndProcess() with the button of the frame.
AppliedOnce ==
    \E button \in ReadSignal :
        LET r == readReceiverAndProcess(Cur, button, clock)
        IN  Cur' = [r EXCEPT !.clear = FALSE, !.ret = FALSE]

\* C24: a frame the receiver has decoded is read after finitely many steps of
\* the program, whether the strip is on or off and whichever scenario runs, and
\* the step that takes it out of the receiver applies its button once to the
\* state machine.
C24_InputServed ==
    /\ decoded ~> ~decoded
    /\ [][decoded /\ ~decoded' => AppliedOnce]_vars

\* A frame waits in the receiver while scenario 9 is in its inner sleep() at
\* the lowest speed.
C24_Witness ==
    /\ decoded
    /\ isSwitchedOn
    /\ running = 9
    /\ site = "inner"
    /\ pc = "poll"
    /\ currentSpeed = 0

\* C25: a random scenario switch begins only in a step of sleep() at its
\* entry, only with the switch mode active and only when more than
\* SCENARIO_SWITCH_TIMEOUT ms have passed since the timestamp, and it sets the
\* timestamp to the current time; every ST_REPT that toggles the mode sets the
\* timestamp to the current time too, and nothing else writes it. So the
\* timestamp is the instant of the last toggle or switch, and no switch begins
\* with the mode inactive or within SCENARIO_SWITCH_TIMEOUT ms of either.
C25_SwitchOnlyWhenDue ==
    [][/\ (pc # "select" /\ pc' = "select") =>
           /\ pc = "sleep"
           /\ clock' = clock
           /\ isSwitchedOn
           /\ isSwitchModeActive
           /\ isSwitchModeActive'
           /\ clock - lastScenarioSwitchTimestamp > SCENARIO_SWITCH_TIMEOUT
           /\ lastScenarioSwitchTimestamp' = clock
       /\ (isSwitchModeActive' # isSwitchModeActive) =>
           /\ lastScenarioSwitchTimestamp' = clock
           /\ pc' # "select"
       /\ (lastScenarioSwitchTimestamp' # lastScenarioSwitchTimestamp) =>
           \/ isSwitchModeActive' # isSwitchModeActive
           \/ pc # "select" /\ pc' = "select"]_vars

\* A switch has begun at the lowest speed, one millisecond past the timeout
\* after the switch mode was activated at the start.
C25_Witness ==
    /\ pc = "select"
    /\ isSwitchModeActive
    /\ currentSpeed = 0
    /\ currentScenario = 5
    /\ leds = "Blank"
    /\ clock = SCENARIO_SWITCH_TIMEOUT + 1
    /\ lastScenarioSwitchTimestamp = SCENARIO_SWITCH_TIMEOUT + 1

\* C26: the loop of selectRandomScenario() always has a scenario other than
\* the current one to draw, and, random8() not giving the current scenario for
\* ever, a selection that has begun ends: the program is back in loop()
\* (sleep() has returned true and the func has returned), and the step that
\* ends the selection leaves a current scenario in 0..9 other than the one it
\* began with, which no earlier pass of the loop has changed.
C26_SelectionEnds ==
    /\ [](RandomScenarios \ {currentScenario} # {})
    /\ (pc = "select") ~> (pc = "loop")
    /\ [][pc = "select" =>
             \/ pc' = "select" /\ currentScenario' = currentScenario
             \/ /\ pc' = "loop"
                /\ running' = -1
                /\ currentScenario' \in RandomScenarios \ {currentScenario}]_vars

\* The selection loop runs for scenario 0 while a frame waits in the
\* receiver.
C26_Witness ==
    /\ pc = "select"
    /\ currentScenario = 0
    /\ running = 0
    /\ decoded
    /\ clock = SCENARIO_SWITCH_TIMEOUT + 1

\* C27: while the strip is switched off no step changes the scenario, the
\* variant, the switch mode or the timestamp, and none begins a random switch;
\* switching the strip off keeps the switch mode and the timestamp, and so does
\* switching it on, which calls the func of the current scenario up to its
\* first sleep(). A sleep() that is entered when the switch is due (as after a
\* switch-on past the timeout) can only begin the switch, which then ends with
\* another scenario.
C27_DueAfterPowerOn ==
    [][/\ ~isSwitchedOn =>
           /\ UNCHANGED <<currentScenario, currentVariant, isSwitchModeActive,
                          lastScenarioSwitchTimestamp>>
           /\ pc' # "select"
       /\ (isSwitchedOn /\ ~isSwitchedOn') =>
           UNCHANGED <<isSwitchModeActive, lastScenarioSwitchTimestamp>>
       /\ (~isSwitchedOn /\ isSwitchedOn') =>
           /\ pc' = "sleep"
           /\ running' = currentScenario
           /\ site' = FirstSite(currentScenario)
           /\ Due => Due'
       /\ (pc = "sleep" /\ Due) =>
           \/ /\ pc' = "sleep"
              /\ Due'
              /\ UNCHANGED <<isSwitchedOn, currentScenario, currentVariant,
                             running, site>>
           \/ /\ pc' = "select"
              /\ lastScenarioSwitchTimestamp' = clock
              /\ UNCHANGED <<isSwitchedOn, currentScenario, currentVariant>>
       /\ (pc = "select" /\ pc' = "loop") =>
           currentScenario' # currentScenario]_vars

\* The strip was switched off with the switch mode active; the timeout has
\* passed since the timestamp while it was off, and a frame waits in the
\* receiver.
C27_Witness ==
    /\ ~isSwitchedOn
    /\ isSwitchModeActive
    /\ lastScenarioSwitchTimestamp = 0
    /\ clock = SCENARIO_SWITCH_TIMEOUT + 1
    /\ currentScenario = 8
    /\ decoded
    /\ leds = "Blank"

TypeOK ==
    /\ isSwitchedOn \in BOOLEAN
    /\ currentBrightness \in 0..(NUM_BRIGHTNESS_STEPS - 1)
    /\ currentSpeed \in 0..(NUM_SPEED_STEPS - 1)
    /\ currentScenario \in 0..(NUM_SCENARIOS - 1)
    /\ leds \in {"Blank", "Drawn"}
    /\ shown = leds
    /\ pc \in {"loop", "sleep", "select", "poll"}

====
